---------------------------- MODULE Spec2Model ----------------------------
(***************************************************************************)
(* A model of exel_diff/cli.py (command table_import): pairing of opposite *)
(* amounts of one spreadsheet column, sheet by sheet.                       *)
(*                                                                          *)
(* A workbook is a sequence of sheets [title, rows]; rows is a sequence of  *)
(* rows (row 1 first), each row a sequence of cell values of the same       *)
(* length (the sheet's max_column).  A cell value is None, a str or an int. *)
(* A str is a sequence of one-character strings, so that concatenation,     *)
(* prefix matching and str(int) are computed and not assumed.               *)
(*                                                                          *)
(* An exception or exit(1) ends an invocation where it is raised: err is    *)
(* set and pc stays at the step that raised.                                *)
(*                                                                          *)
(* Not modelled: the .xlsb conversion (lines 152-156), the console output   *)
(* other than the warnings, --output (the input file is overwritten) and    *)
(* patterns other than the default --column_pattern.                        *)
(***************************************************************************)
EXTENDS Integers, Sequences, FiniteSets, TLC

VARIABLES
    cfg,                    \* the command's options (fixed during a behaviour)
    invocations,            \* how many times the user runs the command
    file,                   \* the document on disk at input_file
    run,                    \* number of the current invocation
    pc,                     \* position of the current invocation in table_import
    err,                    \* "" or the exception that ended the invocation
    wb,                     \* the loaded workbook (<<>> before load_workbook)
    warned,                 \* tabs reported by RichConsole.warning
    sheets,                 \* list `sheets`: positions in wb, in loop order
    si,                     \* index in `sheets` of the sheet being processed
    column_index_process,   \* column scanned on the current sheet
    row,                    \* row of the cell iter_rows yields next
    hash_map,               \* insertion-ordered buckets [key, plus, minus]
    index_column_result,    \* result column of the current sheet (optional)
    bi,                     \* 1-based position of enumerate(hash_map.items())
    pre,                    \* history: rows of the current sheet when its pass began
    first                   \* history: the document as saved by the first invocation

vars == <<cfg, invocations, file, run, pc, err, wb, warned, sheets, si,
          column_index_process, row, hash_map, index_column_result, bi, pre, first>>

-----------------------------------------------------------------------------
(* Bounds of the model *)

\* Last row of a generated sheet (row 1 is the header row).
MaxRow == 4

\* Largest number of invocations of the command on the same document.
MaxRuns == 2

-----------------------------------------------------------------------------
(* Python values *)

\* Optional[int]: <<>> is None, <<k>> is the integer k.
NoInt == <<>>
SomeInt(k) == <<k>>
IsNoInt(o) == o = <<>>
IntOf(o) == o[1]

PyNone == [t |-> "none", n |-> 0, s |-> <<>>]
PyStr(chars) == [t |-> "str", n |-> 0, s |-> chars]
PyInt(k) == [t |-> "int", n |-> k, s |-> <<>>]

Abs(k) == IF k < 0 THEN -k ELSE k
Max(a, b) == IF a > b THEN a ELSE b
Min(a, b) == IF a < b THEN a ELSE b

Digit(d) ==
    CASE d = 0 -> "0" [] d = 1 -> "1" [] d = 2 -> "2" [] d = 3 -> "3"
      [] d = 4 -> "4" [] d = 5 -> "5" [] d = 6 -> "6" [] d = 7 -> "7"
      [] d = 8 -> "8" [] d = 9 -> "9"

\* str(k) for an int k >= 0: its decimal digits.
RECURSIVE StrOfNat(_)
StrOfNat(k) ==
    IF k < 10 THEN <<Digit(k)>> ELSE StrOfNat(k \div 10) \o <<Digit(k % 10)>>

\* The literal of the default --column_pattern "^Amount.*".
column_pattern == <<"A", "m", "o", "u", "n", "t">>

\* re.match(column_pattern, name) for a str name: the pattern is anchored at
\* the start and ".*" matches any rest, the empty one included.
ReMatch(name) ==
    /\ Len(name) >= Len(column_pattern)
    /\ SubSeq(name, 1, Len(column_pattern)) = column_pattern

-----------------------------------------------------------------------------
(* openpyxl worksheet *)

MaxRowOf(rows) == Len(rows)
MaxColumnOf(rows) == Len(rows[1])

\* sheet.cell(row=r, column=c).value; a cell that does not exist yet is None.
CellValue(rows, r, c) ==
    IF r <= Len(rows) /\ c <= Len(rows[r]) THEN rows[r][c] ELSE PyNone

\* SetCell with the row test slipped from = to >=: the column is filled downwards.
SetCellFromRow(rows, r, c, v) ==
    [i \in 1..Len(rows) |->
        [j \in 1..Max(c, Len(rows[i])) |->
            IF i >= r /\ j = c THEN v
            ELSE IF j <= Len(rows[i]) THEN rows[i][j] ELSE PyNone]]

\* sheet.cell(row=r, column=c).value = v (creates the cell, which may widen
\* the sheet).
SetCell(rows, r, c, v) ==
    [i \in 1..Len(rows) |->
        [j \in 1..Max(c, Len(rows[i])) |->
            IF i = r /\ j = c THEN v
            ELSE IF j <= Len(rows[i]) THEN rows[i][j] ELSE PyNone]]

\* sheet.insert_cols(idx): the cells at columns >= idx move one column right.
InsertCols(rows, idx) ==
    IF idx > MaxColumnOf(rows) THEN rows
    ELSE [i \in 1..Len(rows) |->
            SubSeq(rows[i], 1, idx - 1) \o <<PyNone>> \o SubSeq(rows[i], idx, Len(rows[i]))]


-----------------------------------------------------------------------------
(* Option validation, lines 138-150 *)

OptionsError(c) ==
    \/ c.row_stop_strategy = "index_row" /\ IsNoInt(c.row_stop_index)
    \/ c.row_stop_strategy # "index_row" /\ ~IsNoInt(c.row_stop_index)
    \/ c.tabs = {} /\ c.tab_index = {}
    \/ ~IsNoInt(c.column_index) /\ IntOf(c.column_index) < 1
    \/ c.row_start_index < 1
    \/ c.verbose < 0 \/ c.verbose > 2

-----------------------------------------------------------------------------
(* Sheet selection, lines 177-192 *)

Titles(book) == {book[p].title : p \in 1..Len(book)}

\* RequestedTabs with the positions taken as 0-based: idx for idx + 1.
RequestedTabsZeroBased(c, book) ==
    c.tabs \cup {book[p].title : p \in {q \in 1..Len(book) : q - 1 \in c.tab_index}}

\* tabs after tabs.extend(...) and set(tabs).
RequestedTabs(c, book) ==
    c.tabs \cup {book[p].title : p \in {q \in 1..Len(book) : q \in c.tab_index}}

FoundSheets(c, book) ==
    {p \in 1..Len(book) : book[p].title \in RequestedTabs(c, book)}

\* The orders in which `for tab in tabs` can visit a set of str.
Orders(S) ==
    {o \in [1..Cardinality(S) -> S] : \A i, j \in 1..Cardinality(S) : o[i] = o[j] => i = j}

-----------------------------------------------------------------------------
(* Column resolution, lines 195-208 and 219-226 *)

\* next((name for name in col_names if re.match(column_pattern, name)), None):
\* the position of the first matching name, 0 when there is none, -1 when
\* re.match is handed a name that is not a str before any name matched.
RECURSIVE FirstMatch(_, _)
FirstMatch(col_names, i) ==
    IF i > Len(col_names) THEN 0
    ELSE IF col_names[i].t # "str" THEN -1
    ELSE IF ReMatch(col_names[i].s) THEN i
    ELSE FirstMatch(col_names, i + 1)

\* column_name of lines 199-205 and 221-224 (the caller has checked the index).
ColumnName(c, col_names) ==
    IF ~IsNoInt(c.column_index) THEN col_names[IntOf(c.column_index)]
    ELSE IF FirstMatch(col_names, 1) > 0 THEN col_names[FirstMatch(col_names, 1)]
    ELSE PyNone

\* What the check of one sheet's header ends in: "ok", "SystemExit" (exit(1))
\* or "TypeError".
CheckSheet(c, col_names) ==
    IF ~IsNoInt(c.column_index) /\ IntOf(c.column_index) > Len(col_names) THEN "SystemExit"
    ELSE IF IsNoInt(c.column_index) /\ FirstMatch(col_names, 1) = -1 THEN "TypeError"
    ELSE IF ColumnName(c, col_names) = PyNone THEN "SystemExit"
    ELSE "ok"

\* The loop of lines 195-208 from the i-th selected sheet on.
RECURSIVE CheckSheets(_, _, _, _)
CheckSheets(c, book, order, i) ==
    IF i > Len(order) THEN "ok"
    ELSE IF CheckSheet(c, book[order[i]].rows[1]) # "ok"
         THEN CheckSheet(c, book[order[i]].rows[1])
    ELSE CheckSheets(c, book, order, i + 1)

\* col_names.index(column_name) + 1: the first column holding that name.
ColumnIndexProcess(c, col_names) ==
    CHOOSE i \in 1..Len(col_names) :
        /\ col_names[i] = ColumnName(c, col_names)
        /\ \A j \in 1..(i - 1) : col_names[j] # ColumnName(c, col_names)

-----------------------------------------------------------------------------
(* Row scan and bucketing, lines 228-252 *)

\* cell.value is None or cell.value == ""
IsBlank(v) == v = PyNone \/ v = PyStr(<<>>)

\* partition_value of lines 242-244.
PartitionValue(c, rows, r) ==
    IF IsNoInt(c.partition_column_index) THEN PyStr(<<>>)
    ELSE CellValue(rows, r, IntOf(c.partition_column_index))

\* v = str(abs(cell.value)) + partition_value, for an int and a str.
BucketKey(v, partition_value) == StrOfNat(Abs(v.n)) \o partition_value.s

\* The position in hash_map of the bucket of this key, 0 when it has none.
KeyIndex(hm, key) ==
    IF \E i \in 1..Len(hm) : hm[i].key = key
    THEN CHOOSE i \in 1..Len(hm) : hm[i].key = key
    ELSE 0

\* AddCell with the cell put at the head of its list instead of its end.
AddCellAtHead(hm, key, r, v) ==
    LET at == KeyIndex(hm, key)
        old == IF at = 0 THEN [key |-> key, plus |-> <<>>, minus |-> <<>>] ELSE hm[at]
        new == IF v.n < 0 THEN [old EXCEPT !.minus = <<r>> \o @]
               ELSE [old EXCEPT !.plus = <<r>> \o @]
    IN IF at = 0 THEN Append(hm, new) ELSE [hm EXCEPT ![at] = new]

\* Lines 247-252: the cell of row r joins the "-" list when its value is < 0,
\* the "+" list otherwise; a new key is inserted last.
AddCell(hm, key, r, v) ==
    LET at == KeyIndex(hm, key)
        old == IF at = 0 THEN [key |-> key, plus |-> <<>>, minus |-> <<>>] ELSE hm[at]
        new == IF v.n < 0 THEN [old EXCEPT !.minus = Append(@, r)]
               ELSE [old EXCEPT !.plus = Append(@, r)]
    IN IF at = 0 THEN Append(hm, new) ELSE [hm EXCEPT ![at] = new]

\* ScanStep with a blank cell skipped under on_nan too, as under end_of_tab.
ScanStepSkipsBlank(c, rows, col, r, hm) ==
    LET v == CellValue(rows, r, col)
        pv == PartitionValue(c, rows, r)
    IN IF c.row_stop_strategy = "index_row" /\ r > IntOf(c.row_stop_index)
       THEN [kind |-> "break", hash_map |-> hm]
       ELSE IF IsBlank(v) /\ c.row_stop_strategy \in {"on_nan", "end_of_tab"}
       THEN [kind |-> "continue", hash_map |-> hm]
       ELSE IF v.t # "int" \/ pv.t # "str"
       THEN [kind |-> "TypeError", hash_map |-> hm]
       ELSE [kind |-> "append", hash_map |-> AddCell(hm, BucketKey(v, pv), r, v)]

\* One iteration of the loop of lines 231-252 on the cell of row r:
\* "break", "continue", "append" (with the new hash_map) or "TypeError"
\* (abs() of a value that is no number, or str + a partition value that is no str).
ScanStep(c, rows, col, r, hm) ==
    LET v == CellValue(rows, r, col)
        pv == PartitionValue(c, rows, r)
    IN IF c.row_stop_strategy = "index_row" /\ r > IntOf(c.row_stop_index)
       THEN [kind |-> "break", hash_map |-> hm]
       ELSE IF IsBlank(v) /\ c.row_stop_strategy = "on_nan"
       THEN [kind |-> "break", hash_map |-> hm]
       ELSE IF IsBlank(v) /\ c.row_stop_strategy = "end_of_tab"
       THEN [kind |-> "continue", hash_map |-> hm]
       ELSE IF v.t # "int" \/ pv.t # "str"
       THEN [kind |-> "TypeError", hash_map |-> hm]
       ELSE [kind |-> "append", hash_map |-> AddCell(hm, BucketKey(v, pv), r, v)]

-----------------------------------------------------------------------------
(* Result column and annotation, lines 254-286 *)

\* WriteBucket with the bucket's index written to the entries without a
\* partner too.
RECURSIVE WriteBucketIndexesAll(_, _, _, _, _)
WriteBucketIndexesAll(rows, col, cells, idx, i) ==
    IF i > Max(Len(cells.plus), Len(cells.minus)) THEN rows
    ELSE IF Len(cells.plus) >= i /\ Len(cells.minus) >= i
    THEN WriteBucketIndexesAll(SetCell(SetCell(rows, cells.plus[i], col, PyInt(idx)),
                                       cells.minus[i], col, PyInt(idx)),
                               col, cells, idx, i + 1)
    ELSE IF Len(cells.plus) >= i
    THEN WriteBucketIndexesAll(SetCell(rows, cells.plus[i], col, PyInt(idx)),
                               col, cells, idx, i + 1)
    ELSE WriteBucketIndexesAll(SetCell(rows, cells.minus[i], col, PyInt(idx)),
                               col, cells, idx, i + 1)

\* Writes of one bucket, lines 267-286, from position i (1-based) on: the
\* i-th "+" cell and the i-th "-" cell get idx when both exist, the one that
\* exists alone gets None.
RECURSIVE WriteBucket(_, _, _, _, _)
WriteBucket(rows, col, cells, idx, i) ==
    IF i > Max(Len(cells.plus), Len(cells.minus)) THEN rows
    ELSE IF Len(cells.plus) >= i /\ Len(cells.minus) >= i
    THEN WriteBucket(SetCell(SetCell(rows, cells.plus[i], col, PyInt(idx)),
                             cells.minus[i], col, PyInt(idx)),
                     col, cells, idx, i + 1)
    ELSE IF Len(cells.plus) >= i
    THEN WriteBucket(SetCell(rows, cells.plus[i], col, PyNone), col, cells, idx, i + 1)
    ELSE WriteBucket(SetCell(rows, cells.minus[i], col, PyNone), col, cells, idx, i + 1)

-----------------------------------------------------------------------------
(* The steps of table_import *)

CurrentSheet == sheets[si]
CurrentRows == wb[CurrentSheet].rows

Fail(e) ==
    /\ err' = e
    /\ UNCHANGED <<cfg, invocations, file, run, pc, wb, warned, sheets, si,
                   column_index_process, row, hash_map, index_column_result, bi,
                   pre, first>>

\* Lines 133-150: --author returns at once; the options are checked.
Validate ==
    /\ pc = "validate" /\ err = ""
    /\ IF cfg.author
       THEN /\ pc' = "returned"
            /\ UNCHANGED <<cfg, invocations, file, run, err, wb, warned, sheets, si,
                           column_index_process, row, hash_map, index_column_result,
                           bi, pre, first>>
       ELSE IF OptionsError(cfg) THEN Fail("ValueError")
       ELSE /\ pc' = "open"
            /\ UNCHANGED <<cfg, invocations, file, run, err, wb, warned, sheets, si,
                           column_index_process, row, hash_map, index_column_result,
                           bi, pre, first>>

\* Lines 160-175: load_workbook; a file that cannot be read ends in exit(1).
OpenWorkbook ==
    /\ pc = "open" /\ err = ""
    /\ IF ~cfg.input_exists \/ Len(file) = 0 THEN Fail("SystemExit")
       ELSE /\ wb' = file
            /\ pc' = "select"
            /\ UNCHANGED <<cfg, invocations, file, run, err, warned, sheets, si,
                           column_index_process, row, hash_map, index_column_result,
                           bi, pre, first>>

\* Lines 177-192: the requested tabs that exist, in the order of a set of str.
SelectSheets ==
    /\ pc = "select" /\ err = ""
    /\ warned' = RequestedTabs(cfg, wb) \ Titles(wb)
    /\ IF FoundSheets(cfg, wb) = {}
       THEN /\ err' = "SystemExit"
            /\ UNCHANGED <<pc, sheets>>
       ELSE /\ \E order \in Orders(FoundSheets(cfg, wb)) : sheets' = order
            /\ pc' = "check"
            /\ err' = ""
    /\ UNCHANGED <<cfg, invocations, file, run, wb, si, column_index_process, row,
                   hash_map, index_column_result, bi, pre, first>>

\* Lines 194-211: the column of every selected sheet is looked up first.
CheckColumns ==
    /\ pc = "check" /\ err = ""
    /\ IF CheckSheets(cfg, wb, sheets, 1) # "ok" THEN Fail(CheckSheets(cfg, wb, sheets, 1))
       ELSE /\ pc' = "resolve"
            /\ si' = 1
            /\ UNCHANGED <<cfg, invocations, file, run, err, wb, warned, sheets,
                           column_index_process, row, hash_map, index_column_result,
                           bi, pre, first>>

\* Lines 215-231: the pass of the next sheet begins.
ResolveColumn ==
    /\ pc = "resolve" /\ err = ""
    /\ column_index_process' = ColumnIndexProcess(cfg, CurrentRows[1])
    /\ hash_map' = <<>>
    /\ row' = cfg.row_start_index
    /\ pre' = CurrentRows
    /\ pc' = IF cfg.row_start_index <= MaxRowOf(CurrentRows) THEN "scan" ELSE "place"
    /\ UNCHANGED <<cfg, invocations, file, run, err, wb, warned, sheets, si,
                   index_column_result, bi, first>>

\* Lines 231-252: one cell of the scanned column.
ScanRow ==
    /\ pc = "scan" /\ err = ""
    /\ LET step == ScanStep(cfg, CurrentRows, column_index_process, row, hash_map)
       IN IF step.kind = "TypeError" THEN Fail("TypeError")
          ELSE /\ hash_map' = step.hash_map
               /\ row' = IF step.kind = "break" THEN row ELSE row + 1
               /\ pc' = IF step.kind = "break" \/ row + 1 > MaxRowOf(CurrentRows)
                        THEN "place" ELSE "scan"
               /\ UNCHANGED <<cfg, invocations, file, run, err, wb, warned, sheets, si,
                              column_index_process, index_column_result, bi, pre, first>>

\* PlaceResult with a column inserted at the result column under index_column too.
PlaceResultAlwaysInserts ==
    /\ pc = "place" /\ err = ""
    /\ IF cfg.column_result_strategy = "add_column_end" THEN Fail("AttributeError")
       ELSE /\ index_column_result' =
                   IF cfg.column_result_strategy = "insert_column_right"
                   THEN SomeInt(column_index_process + 1)
                   ELSE cfg.column_result_index
            /\ wb' = IF cfg.column_result_strategy = "insert_column_right"
                     THEN [wb EXCEPT ![CurrentSheet].rows =
                                         InsertCols(@, column_index_process + 1)]
                     ELSE IF ~IsNoInt(cfg.column_result_index)
                     THEN [wb EXCEPT ![CurrentSheet].rows =
                                         InsertCols(@, IntOf(cfg.column_result_index))]
                     ELSE wb
            /\ bi' = 1
            /\ pc' = "annotate"
            /\ UNCHANGED <<cfg, invocations, file, run, err, warned, sheets, si,
                           column_index_process, row, hash_map, pre, first>>

\* Lines 254-263: the result column; sheet.max_col is no attribute of a
\* worksheet (openpyxl names it max_column), so add_column_end raises.
PlaceResult ==
    /\ pc = "place" /\ err = ""
    /\ IF cfg.column_result_strategy = "add_column_end" THEN Fail("AttributeError")
       ELSE /\ index_column_result' =
                   IF cfg.column_result_strategy = "insert_column_right"
                   THEN SomeInt(column_index_process + 1)
                   ELSE cfg.column_result_index
            /\ wb' = IF cfg.column_result_strategy = "insert_column_right"
                     THEN [wb EXCEPT ![CurrentSheet].rows =
                                         InsertCols(@, column_index_process + 1)]
                     ELSE wb
            /\ bi' = 1
            /\ pc' = "annotate"
            /\ UNCHANGED <<cfg, invocations, file, run, err, warned, sheets, si,
                           column_index_process, row, hash_map, pre, first>>

\* Lines 265-286: the writes of one bucket; sheet.cell(row, column=None)
\* raises a TypeError at the first write.
Annotate ==
    /\ pc = "annotate" /\ err = ""
    /\ bi <= Len(hash_map)
    /\ IF IsNoInt(index_column_result) THEN Fail("TypeError")
       ELSE /\ wb' = [wb EXCEPT ![CurrentSheet].rows =
                         WriteBucket(@, IntOf(index_column_result), hash_map[bi], bi - 1, 1)]
            /\ bi' = bi + 1
            /\ UNCHANGED <<cfg, invocations, file, run, pc, err, warned, sheets, si,
                           column_index_process, row, hash_map, index_column_result,
                           pre, first>>

\* Line 288 and the loop of line 215: on to the next sheet, or to the save.
NextSheet ==
    /\ pc = "annotate" /\ err = ""
    /\ bi > Len(hash_map)
    /\ si' = si + 1
    /\ pc' = IF si + 1 <= Len(sheets) THEN "resolve" ELSE "save"
    /\ UNCHANGED <<cfg, invocations, file, run, err, wb, warned, sheets,
                   column_index_process, row, hash_map, index_column_result, bi,
                   pre, first>>

\* Lines 294-297: output_file is not given, the input file is overwritten.
Save ==
    /\ pc = "save" /\ err = ""
    /\ file' = wb
    /\ first' = IF run = 1 THEN wb ELSE first
    /\ pc' = "done"
    /\ UNCHANGED <<cfg, invocations, run, err, wb, warned, sheets, si,
                   column_index_process, row, hash_map, index_column_result, bi, pre>>

\* The user runs the same command again on the document it wrote.
Rerun ==
    /\ pc = "done" /\ err = ""
    /\ run < invocations
    /\ run' = run + 1
    /\ pc' = "validate"
    /\ wb' = <<>>
    /\ warned' = {}
    /\ sheets' = <<>>
    /\ si' = 1
    /\ column_index_process' = 1
    /\ row' = 1
    /\ hash_map' = <<>>
    /\ index_column_result' = NoInt
    /\ bi' = 1
    /\ pre' = <<>>
    /\ UNCHANGED <<cfg, invocations, file, err, first>>

Next ==
    \/ Validate
    \/ OpenWorkbook
    \/ SelectSheets
    \/ CheckColumns
    \/ ResolveColumn
    \/ ScanRow
    \/ PlaceResult
    \/ Annotate
    \/ NextSheet
    \/ Save
    \/ Rerun

-----------------------------------------------------------------------------
(* Inputs: documents and options *)

tA == PyStr(<<"A">>)
tB == PyStr(<<"B">>)
t0A == PyStr(<<"0", "A">>)
tNote == PyStr(<<"n">>)

hAmount == PyStr(column_pattern)
hAmountUSD == PyStr(column_pattern \o <<" ", "U", "S", "D">>)
hID == PyStr(<<"I", "D">>)
hPart == PyStr(<<"P", "a", "r", "t">>)
hNote == PyStr(<<"N", "o", "t", "e">>)

\* Header: the amounts in column 1, the partition in column 2, a note in column 3.
Header == <<hAmount, hPart, hNote>>

\* The rows of a generated sheet: an amount or a blank, with a partition value
\* or none.
DataRows ==
    { <<PyInt(10), tA, tNote>>, <<PyInt(-10), tA, tNote>>, <<PyInt(-10), t0A, tNote>>,
      <<PyInt(1), t0A, tNote>>, <<PyInt(10), PyNone, tNote>>,
      <<PyNone, tA, tNote>>, <<PyStr(<<>>), tA, tNote>> }

\* Rows that differ in the amount alone.
AmountRows ==
    { <<PyInt(10), tA, tNote>>, <<PyInt(-10), tA, tNote>>, <<PyInt(1), tA, tNote>>,
      <<PyNone, tA, tNote>>, <<PyStr(<<>>), tA, tNote>> }

\* Fewer kinds of rows, for the inputs whose options vary most.
FewDataRows ==
    { <<PyInt(10), tA, tNote>>, <<PyInt(-10), tA, tNote>>, <<PyNone, tA, tNote>> }

Sheet(title, header, data) == [title |-> title, rows |-> <<header>> \o data]

Books(kinds) == {<<Sheet("S1", Header, d)>> : d \in [1..(MaxRow - 1) -> kinds]}

\* Scenario A/B of the specification: 10, -10, 10, 5 with partitions A, A, B, A.
ScenarioA ==
    <<Sheet("S1", Header, << <<PyInt(10), tA, tNote>>, <<PyInt(-10), tA, tNote>>,
                             <<PyInt(10), tB, tNote>>, <<PyInt(5), tA, tNote>> >>)>>

\* Two pairs of the same amount in one partition.
TwoPairs ==
    <<Sheet("S1", Header, << <<PyInt(10), tA, tNote>>, <<PyInt(-10), tA, tNote>>,
                             <<PyInt(10), tA, tNote>>, <<PyInt(-10), tA, tNote>> >>)>>

\* Scenario D: the amounts are in the second column.
ScenarioD ==
    <<Sheet("S1", <<hID, hAmountUSD, hNote>>,
            << <<PyInt(1), PyInt(10), tNote>>, <<PyInt(2), PyInt(-10), tNote>> >>)>>

\* Two columns of the same name.
SameNames ==
    <<Sheet("S1", <<hAmount, hPart, hAmount>>,
            << <<PyInt(10), tA, PyInt(5)>>, <<PyInt(-10), tA, PyInt(-5)>> >>)>>

\* A header cell that is empty.
EmptyName ==
    <<Sheet("S1", <<PyNone, hAmount, hNote>>,
            << <<PyInt(1), PyInt(10), tNote>>, <<PyInt(2), PyInt(-10), tNote>> >>)>>

\* Two sheets whose amounts are in different columns.
TwoSheets == <<ScenarioA[1], Sheet("S2", ScenarioD[1].rows[1], Tail(ScenarioD[1].rows))>>

ScenarioBooks == {ScenarioA, TwoPairs, ScenarioD, SameNames, EmptyName}

StopStrategies == {"on_nan", "end_of_tab", "index_row"}
ResultStrategies == {"insert_column_right", "add_column_end", "index_column"}

\* The options of `python cli.py book.xlsx -t S1`, with typer's defaults.
DefaultCfg ==
    [input_exists |-> TRUE, tabs |-> {"S1"}, tab_index |-> {}, column_index |-> NoInt,
     row_start_index |-> 2, row_stop_strategy |-> "on_nan", row_stop_index |-> NoInt,
     column_result_strategy |-> "insert_column_right", column_result_index |-> NoInt,
     partition_column_index |-> NoInt, author |-> FALSE, verbose |-> 1]

\* The stop options that pass the validation.
ValidStops ==
    { [s |-> "on_nan", i |-> NoInt], [s |-> "end_of_tab", i |-> NoInt],
      [s |-> "index_row", i |-> SomeInt(MaxRow - 1)] }

\* Sheets of generated amounts under every stop strategy, scanned from the
\* first or the second data row, the result in a new or in the note column.
ScanInputs ==
    { [cfg |-> [DefaultCfg EXCEPT !.row_stop_strategy = stop.s, !.row_stop_index = stop.i,
                                  !.row_start_index = start,
                                  !.column_result_strategy = res.s,
                                  !.column_result_index = res.i],
       book |-> book, invocations |-> 1] :
        stop \in ValidStops, start \in 2..3,
        res \in { [s |-> "insert_column_right", i |-> NoInt],
                  [s |-> "index_column", i |-> SomeInt(3)] },
        book \in Books(AmountRows) }

\* Sheets of generated amounts and partition values, partitioned by column 2.
PartitionInputs ==
    { [cfg |-> [DefaultCfg EXCEPT !.row_stop_strategy = stop.s, !.row_stop_index = stop.i,
                                  !.partition_column_index = SomeInt(2)],
       book |-> book, invocations |-> 1] :
        stop \in ValidStops, book \in Books(DataRows) }

\* The command run again on its own output, the result column at every place.
RerunInputs ==
    { [cfg |-> [DefaultCfg EXCEPT !.row_stop_strategy = stop.s, !.row_stop_index = stop.i,
                                  !.partition_column_index = part,
                                  !.column_result_strategy = "index_column",
                                  !.column_result_index = SomeInt(res)],
       book |-> book, invocations |-> MaxRuns] :
        stop \in ValidStops, part \in {NoInt, SomeInt(2)}, res \in 1..4,
        book \in Books(FewDataRows) \cup {TwoPairs} }

\* Every combination of the options the validation looks at.
OptionInputs ==
    { [cfg |-> [DefaultCfg EXCEPT !.row_stop_strategy = stop, !.row_stop_index = stopi,
                                  !.row_start_index = start,
                                  !.column_index = col,
                                  !.column_result_strategy = res,
                                  !.column_result_index = resi],
       book |-> book, invocations |-> 1] :
        stop \in StopStrategies, stopi \in {NoInt, SomeInt(3)}, start \in 0..4,
        col \in {NoInt} \cup {SomeInt(k) : k \in 0..4},
        res \in ResultStrategies, resi \in {NoInt, SomeInt(4)},
        book \in ScenarioBooks }

\* The tabs asked for by name and by position, the file, --author, --verbose.
TabInputs ==
    { [cfg |-> [DefaultCfg EXCEPT !.tabs = tabs, !.tab_index = tab_index,
                                  !.input_exists = exists, !.author = author,
                                  !.verbose = verbose],
       book |-> TwoSheets, invocations |-> 1] :
        tabs \in SUBSET {"S1", "S2", "SX"}, tab_index \in SUBSET (1..3),
        exists \in BOOLEAN, author \in BOOLEAN, verbose \in {1, 3} }

Inputs == ScanInputs \cup PartitionInputs \cup RerunInputs \cup OptionInputs \cup TabInputs

Init ==
    \E input \in Inputs :
        /\ cfg = input.cfg
        /\ invocations = input.invocations
        /\ file = input.book
        /\ run = 1
        /\ pc = "validate"
        /\ err = ""
        /\ wb = <<>>
        /\ warned = {}
        /\ sheets = <<>>
        /\ si = 1
        /\ column_index_process = 1
        /\ row = 1
        /\ hash_map = <<>>
        /\ index_column_result = NoInt
        /\ bi = 1
        /\ pre = <<>>
        /\ first = <<>>

Spec == Init /\ [][Next]_vars

-----------------------------------------------------------------------------
(* What the properties speak of *)

Range(seq) == {seq[i] : i \in 1..Len(seq)}

\* The rows of the scanned entries: the cells held by hash_map.
ScannedRows ==
    UNION {Range(hash_map[b].plus) \cup Range(hash_map[b].minus) : b \in 1..Len(hash_map)}

\* The pass of a sheet is over: its result cells are written.
PassDone == err = "" /\ pc \in {"resolve", "save", "done"} /\ si > 1

\* The scan of a sheet is over: hash_map is complete.
ScanDone == (err = "" /\ pc \in {"place", "annotate"}) \/ PassDone

\* The sheet that hash_map, pre and index_column_result belong to.
PassSheet == IF pc \in {"scan", "place", "annotate"} THEN sheets[si] ELSE sheets[si - 1]
PassRows == wb[PassSheet].rows

\* The amount and the partition of a row as they were when the pass began.
AmountOf(r) == CellValue(pre, r, column_index_process)
PartitionOf(r) == PartitionValue(cfg, pre, r)

\* The result cell of a row, now.
ResultOf(r) == CellValue(PassRows, r, IntOf(index_column_result))

PairsOf(b) == Min(Len(hash_map[b].plus), Len(hash_map[b].minus))

Increasing(seq) == \A i, j \in 1..Len(seq) : i < j => seq[i] < seq[j]

-----------------------------------------------------------------------------
(* C1 *)

\* C1: two rows that share a match index as a pair (the i-th non-negative and
\* the i-th negative entry of a bucket, both annotated with the bucket's
\* index) have equal absolute values, opposite signs and the same partition
\* value.
C1_PairedRowsMatch ==
    (PassDone /\ ~IsNoInt(index_column_result)) =>
        \A b \in 1..Len(hash_map) : \A i \in 1..PairsOf(b) :
            LET p == hash_map[b].plus[i]
                m == hash_map[b].minus[i]
            IN (ResultOf(p) = PyInt(b - 1) /\ ResultOf(m) = PyInt(b - 1)) =>
                   /\ Abs(AmountOf(p).n) = Abs(AmountOf(m).n)
                   /\ AmountOf(p).n >= 0 /\ AmountOf(m).n < 0
                   /\ PartitionOf(p) = PartitionOf(m)

-----------------------------------------------------------------------------
(* C2 *)

\* The scanned rows whose result cell holds the match index k.
RowsWithIndex(k) == {r \in ScannedRows : ResultOf(r) = PyInt(k)}

\* C2 as stated: after a sheet is processed no match index is on more than
\* two scanned rows.
C2_IndexOnTwoRows ==
    (PassDone /\ ~IsNoInt(index_column_result)) =>
        \A b \in 1..Len(hash_map) : Cardinality(RowsWithIndex(b - 1)) <= 2

\* C2 as amended: a match index is the index of one bucket; it is on the
\* first min(|non_negative|, |negative|) entries of both lists of that bucket
\* and on no other scanned row, so on exactly twice that many rows.
C2_IndexSharedWithinBucket ==
    (PassDone /\ ~IsNoInt(index_column_result)) =>
        \A b \in 1..Len(hash_map) :
            /\ RowsWithIndex(b - 1) =
                   {hash_map[b].plus[i] : i \in 1..PairsOf(b)}
                       \cup {hash_map[b].minus[i] : i \in 1..PairsOf(b)}
            /\ Cardinality(RowsWithIndex(b - 1)) = 2 * PairsOf(b)

\* A bucket of two pairs was annotated: its index is on four rows.
C2_Witness ==
    /\ PassDone /\ ~IsNoInt(index_column_result)
    /\ \E b \in 1..Len(hash_map) :
           PairsOf(b) = 2 /\ Cardinality(RowsWithIndex(b - 1)) = 4

-----------------------------------------------------------------------------
(* C3 *)

\* The scanned rows of the key and sign of a list of bucket b.
RowsOfKey(key, negative) ==
    {r \in ScannedRows :
        /\ BucketKey(AmountOf(r), PartitionOf(r)) = key
        /\ (AmountOf(r).n < 0) = negative}

\* C3: every bucket holds the scanned rows of its key, the non-negative ones
\* and the negative ones each in scan order; for every position below the
\* length of the shorter list both entries hold the bucket's index, and every
\* entry of the longer list from that position on is blank.
C3_PositionalPairing ==
    (PassDone /\ ~IsNoInt(index_column_result)) =>
        \A b \in 1..Len(hash_map) :
            LET plus == hash_map[b].plus
                minus == hash_map[b].minus
            IN /\ Increasing(plus) /\ Increasing(minus)
               /\ Range(plus) = RowsOfKey(hash_map[b].key, FALSE)
               /\ Range(minus) = RowsOfKey(hash_map[b].key, TRUE)
               /\ \A i \in 1..PairsOf(b) :
                      ResultOf(plus[i]) = PyInt(b - 1) /\ ResultOf(minus[i]) = PyInt(b - 1)
               /\ \A i \in (PairsOf(b) + 1)..Len(plus) : ResultOf(plus[i]) = PyNone
               /\ \A i \in (PairsOf(b) + 1)..Len(minus) : ResultOf(minus[i]) = PyNone

\* A bucket of two non-negative entries and one negative entry was annotated
\* over the notes of the result column: one pair, the third entry blanked.
C3_Witness ==
    /\ PassDone /\ cfg.column_result_strategy = "index_column"
    /\ ~IsNoInt(index_column_result)
    /\ \E b \in 1..Len(hash_map) :
           /\ Len(hash_map[b].plus) = 2 /\ Len(hash_map[b].minus) = 1
           /\ ResultOf(hash_map[b].plus[1]) = PyInt(b - 1)
           /\ CellValue(pre, hash_map[b].plus[2], IntOf(index_column_result)) # PyNone
           /\ ResultOf(hash_map[b].plus[2]) = PyNone

-----------------------------------------------------------------------------
(* C4 *)

\* The scan of the current sheet was ended by an exception at the cell of `row`.
ScanAborted == pc = "scan" /\ err # ""
CellAtAbort == CellValue(CurrentRows, row, column_index_process)

\* C4: under index_row a blank cell of the scanned column, at a row up to
\* the stop row, does not abort the run.
C4_BlankInRangeDoesNotAbort ==
    (cfg.row_stop_strategy = "index_row" /\ ScanAborted) => ~IsBlank(CellAtAbort)

-----------------------------------------------------------------------------
(* C5 *)

\* C5: with index_column and no --column_result_index the run does not get
\* past the validation of the options.
C5_MissingResultIndexRejected ==
    (/\ cfg.column_result_strategy = "index_column"
     /\ IsNoInt(cfg.column_result_index)
     /\ ~cfg.author)
        => pc = "validate"

-----------------------------------------------------------------------------
(* C6 *)

\* C6: with --column_index k the column that is scanned is column k.
C6_ExplicitIndexIsScanned ==
    (~IsNoInt(cfg.column_index) /\ pc \in {"scan", "place", "annotate"})
        => column_index_process = IntOf(cfg.column_index)

-----------------------------------------------------------------------------
(* C7 *)

\* C7: a row with a number in the scanned column and a blank partition cell
\* does not abort the scan.
C7_BlankPartitionDoesNotAbort ==
    (/\ ~IsNoInt(cfg.partition_column_index)
     /\ ScanAborted
     /\ CellAtAbort.t = "int")
        => PartitionValue(cfg, CurrentRows, row) # PyNone

-----------------------------------------------------------------------------
(* C8 *)

RowsFromStart(rows) == cfg.row_start_index..MaxRowOf(rows)

\* The rows from start_row on that come before any blank cell of the scanned column.
BlankFreeRun(rows, col) ==
    {r \in RowsFromStart(rows) :
        \A q \in cfg.row_start_index..r : ~IsBlank(CellValue(rows, q, col))}

\* The rows from start_row on whose scanned cell is not blank.
NonBlankRows(rows, col) ==
    {r \in RowsFromStart(rows) : ~IsBlank(CellValue(rows, r, col))}

ExpectedRows ==
    IF cfg.row_stop_strategy = "on_nan" THEN BlankFreeRun(pre, column_index_process)
    ELSE NonBlankRows(pre, column_index_process)

\* C8: under on_nan the scanned rows are the blank-free run of rows from
\* start_row on, under end_of_tab they are the non-blank rows from start_row
\* to the last row: at every moment of the scan those of them the scan has
\* passed, and all of them when the scan is over.
C8_BlankStopsOrIsSkipped ==
    cfg.row_stop_strategy \in {"on_nan", "end_of_tab"} =>
        /\ pc = "scan" => ScannedRows = {r \in ExpectedRows : r < row}
        /\ ScanDone => ScannedRows = ExpectedRows

\* An on_nan scan ended at a blank cell that has a number below it.
C8_Witness ==
    /\ cfg.row_stop_strategy = "on_nan" /\ ScanDone
    /\ ScannedRows # {}
    /\ \E r \in RowsFromStart(pre) :
           /\ IsBlank(AmountOf(r))
           /\ AmountOf(r + 1).t = "int"
           /\ r + 1 \notin ScannedRows

-----------------------------------------------------------------------------
(* C9 *)

\* The sheet as the Annotator found it: after the column insertion, if any.
BeforeAnnotation ==
    IF cfg.column_result_strategy = "insert_column_right"
    THEN InsertCols(pre, column_index_process + 1)
    ELSE pre

Annotating == (err = "" /\ pc = "annotate") \/ PassDone

\* C9: the Annotator changes no cell but the result cells of scanned rows:
\* the result cell of a row the scanner did not emit, and every cell of
\* another column, is as it was; the sheets not processed yet are as loaded.
C9_OnlyScannedResultCellsWritten ==
    (Annotating /\ ~IsNoInt(index_column_result)) =>
        /\ Len(PassRows) = Len(BeforeAnnotation)
        /\ \A r \in 1..Len(PassRows) :
               \A c \in 1..(Len(PassRows[r]) + 1) :
                   (c # IntOf(index_column_result) \/ r \notin ScannedRows) =>
                       CellValue(PassRows, r, c) = CellValue(BeforeAnnotation, r, c)
        /\ \A p \in 1..Len(wb) : p \notin Range(sheets) => wb[p] = file[p]

\* With index_column the pass wrote a match index and left the note of a row
\* that was not scanned.
C9_Witness ==
    /\ PassDone /\ cfg.column_result_strategy = "index_column"
    /\ ~IsNoInt(index_column_result)
    /\ \E r \in ScannedRows : ResultOf(r).t = "int" /\ ResultOf(r) # CellValue(pre, r, IntOf(index_column_result))
    /\ \E r \in cfg.row_start_index..Len(pre) :
           /\ r \notin ScannedRows
           /\ ResultOf(r) = tNote

-----------------------------------------------------------------------------
(* C10 *)

\* C10 as stated: with index_column a second run leaves the document as the
\* first run left it.
C10_RerunIdentical ==
    (run >= 2 /\ pc = "done" /\ cfg.column_result_strategy = "index_column")
        => file = first

\* The result column is the column scanned on one of the processed sheets.
ResultIsScannedColumn ==
    \E i \in 1..Len(sheets) :
        cfg.column_result_index = SomeInt(ColumnIndexProcess(cfg, file[sheets[i]].rows[1]))

\* C10 as amended: the same, when the result column is not the scanned column.
C10_RerunIdenticalOffScannedColumn ==
    (/\ run >= 2 /\ pc = "done"
     /\ cfg.column_result_strategy = "index_column"
     /\ ~ResultIsScannedColumn)
        => file = first

\* A second run is over that annotated a pair in a column other than the
\* scanned one.
C10_Witness ==
    /\ run = 2 /\ pc = "done"
    /\ cfg.column_result_strategy = "index_column"
    /\ ~ResultIsScannedColumn
    /\ \E b \in 1..Len(hash_map) : PairsOf(b) >= 1 /\ ResultOf(hash_map[b].plus[1]) = PyInt(b - 1)
    /\ file = first

-----------------------------------------------------------------------------
(* C11 *)

\* A tab asked for by name or by position that the document does not have.
AbsentNames == {t \in cfg.tabs : \A p \in 1..Len(file) : file[p].title # t}
AbsentPositions == {i \in cfg.tab_index : i > Len(file)}

\* The sheets of the document that were asked for, by name or by position.
PresentRequested ==
    {p \in 1..Len(file) : file[p].title \in cfg.tabs \/ p \in cfg.tab_index}

\* The selection of the sheets (lines 177-192) has been made in this invocation.
Selected == pc \notin {"validate", "open", "returned"} /\ ~(pc = "select" /\ err = "")

\* C11 as stated: when a requested tab is absent the run fails before any
\* sheet is looked at, processed or saved.
C11_AbsentTabFailsRun ==
    (AbsentNames # {} \/ AbsentPositions # {}) =>
        pc \in {"validate", "open", "select", "returned"}

\* C11 as amended: an absent tab name is warned about and skipped, an absent
\* position is dropped; the run fails at the selection, with no sheet
\* selected and the document as it was, only when no requested tab is in the
\* document, and goes on with exactly the requested sheets that are otherwise.
C11_AbsentTabIsSkipped ==
    Selected =>
        /\ warned = AbsentNames
        /\ IF PresentRequested = {}
           THEN pc = "select" /\ err = "SystemExit" /\ sheets = <<>> /\ first = <<>>
           ELSE /\ pc # "select"
                /\ Range(sheets) = PresentRequested
                /\ Len(sheets) = Cardinality(PresentRequested)

\* A run asked for an absent name and an absent position beside two sheets
\* of the document: both sheets were annotated and the document was saved.
C11_Witness ==
    /\ pc = "done" /\ err = ""
    /\ AbsentNames # {} /\ AbsentPositions # {}
    /\ warned = AbsentNames
    /\ Len(sheets) = 2
    /\ file = wb
    /\ first = wb
    /\ \E b \in 1..Len(hash_map) : PairsOf(b) >= 1 /\ ResultOf(hash_map[b].plus[1]) = PyInt(b - 1)

=============================================================================
